---- MODULE Spec2Model ----
(***************************************************************************)
(* Event notification subsystem of src/index.js: the broker channel        *)
(* (createChannel), the publisher (publishEvent, called from the /register *)
(* query callback), the subscriber (subscribeToEvents and its consume      *)
(* callback) and the event log (logEventToFile).                           *)
(*                                                                         *)
(* Every action is one run-to-completion callback of the Node event loop.  *)
(* The AMQP channel is FIFO, so the order in which the process hands       *)
(* frames to the channel is the order in which the broker handles them:    *)
(* a call on the channel and the broker's handling of it are one step.     *)
(* An exception that leaves a callback uncaught ends the process (Node's   *)
(* default; index.js installs no uncaughtException handler).               *)
(***************************************************************************)
EXTENDS Integers, Sequences, FiniteSets, TLC

\* ------------------------------------------------------------------ bounds
MaxRequests == 2
MaxForeign == 1
MaxTime == 1

\* ------------------------------------------------------- JavaScript values
\* A JavaScript value: t is its type, s the characters of a string, n the
\* value of a number, m the members of an object in insertion order.
Undef == [t |-> "undef", s |-> <<>>, n |-> 0, m |-> <<>>]
Null == [t |-> "null", s |-> <<>>, n |-> 0, m |-> <<>>]
Str(chars) == [t |-> "str", s |-> chars, n |-> 0, m |-> <<>>]
Num(k) == [t |-> "num", s |-> <<>>, n |-> k, m |-> <<>>]
Obj(members) == [t |-> "obj", s |-> <<>>, n |-> 0, m |-> members]
Member(key, val) == [k |-> key, v |-> val]

Quote == "\""
Backslash == "\\"
Newline == "\n"
DigitChars == <<"0", "1", "2", "3", "4", "5", "6", "7", "8", "9">>
IsDigit(c) == \E d \in 1..10 : DigitChars[d] = c
DigitVal(c) == (CHOOSE d \in 1..10 : DigitChars[d] = c) - 1

\* obj[key]: the value of the last member named key, undefined when absent.
Get(obj, key) ==
  LET at == {i \in 1..Len(obj.m) : obj.m[i].k = key}
  IN IF at = {} THEN Undef
     ELSE obj.m[CHOOSE i \in at : \A j \in at : j <= i].v

\* obj[key] = val: replaces the member in place, or adds it at the end.
Put(members, key, val) ==
  IF \E i \in 1..Len(members) : members[i].k = key
  THEN [i \in 1..Len(members) |->
          IF members[i].k = key THEN Member(key, val) ELSE members[i]]
  ELSE Append(members, Member(key, val))

\* ---------------------------------------------------------- JSON.stringify
\* Mutant: the characters of a string are written as they are.
EscapeChars_none(chars) == chars

RECURSIVE EscapeChars(_)
EscapeChars(chars) ==
  IF chars = <<>> THEN <<>>
  ELSE LET c == Head(chars)
           e == IF c = Quote THEN <<Backslash, Quote>>
                ELSE IF c = Backslash THEN <<Backslash, Backslash>>
                ELSE IF c = Newline THEN <<Backslash, "n">>
                ELSE <<c>>
       IN e \o EscapeChars(Tail(chars))

QuoteString(chars) == <<Quote>> \o EscapeChars(chars) \o <<Quote>>

RECURSIVE Digits(_)
Digits(k) ==
  IF k < 10 THEN <<DigitChars[k + 1]>>
  ELSE Digits(k \div 10) \o <<DigitChars[(k % 10) + 1]>>

RECURSIVE StringifyValue(_)
RECURSIVE StringifyMembers(_, _)
\* The members whose value is undefined are left out.
StringifyMembers(members, first) ==
  IF members = <<>> THEN <<>>
  ELSE LET h == Head(members)
       IN IF h.v.t = "undef" THEN StringifyMembers(Tail(members), first)
          ELSE (IF first THEN <<>> ELSE <<",">>)
               \o QuoteString(h.k) \o <<":">> \o StringifyValue(h.v)
               \o StringifyMembers(Tail(members), FALSE)

StringifyValue(v) ==
  IF v.t = "str" THEN QuoteString(v.s)
  ELSE IF v.t = "num" THEN Digits(v.n)
  ELSE IF v.t = "obj" THEN <<"{">> \o StringifyMembers(v.m, TRUE) \o <<"}">>
  ELSE <<"n", "u", "l", "l">>

JSONstringify(v) == StringifyValue(v)

\* -------------------------------------------------------------- JSON.parse
\* A parse step: ok, the value read, and the index after it.
ParseFail == [ok |-> FALSE, val |-> Undef, next |-> 0]
ParseOk(v, i) == [ok |-> TRUE, val |-> v, next |-> i]

RECURSIVE ParseChars(_, _, _)
\* The characters of a string up to its closing quote, from index i.
ParseChars(txt, i, acc) ==
  IF i > Len(txt) THEN ParseFail
  ELSE IF txt[i] = Quote THEN ParseOk(Str(acc), i + 1)
  ELSE IF txt[i] = Backslash THEN
         IF i + 1 > Len(txt) THEN ParseFail
         ELSE IF txt[i + 1] \in {Quote, Backslash}
              THEN ParseChars(txt, i + 2, Append(acc, txt[i + 1]))
         ELSE IF txt[i + 1] = "n"
              THEN ParseChars(txt, i + 2, Append(acc, Newline))
         ELSE ParseFail
  ELSE IF txt[i] = Newline THEN ParseFail
  ELSE ParseChars(txt, i + 1, Append(acc, txt[i]))

RECURSIVE ParseDigits(_, _, _)
ParseDigits(txt, i, acc) ==
  IF i <= Len(txt) /\ IsDigit(txt[i])
  THEN ParseDigits(txt, i + 1, acc * 10 + DigitVal(txt[i]))
  ELSE ParseOk(Num(acc), i)

\* A number: no leading zero before further digits.
ParseNumber(txt, i) ==
  IF txt[i] = "0" /\ i + 1 <= Len(txt) /\ IsDigit(txt[i + 1]) THEN ParseFail
  ELSE ParseDigits(txt, i, 0)

IsWord(txt, i, word) ==
  /\ i + Len(word) - 1 <= Len(txt)
  /\ \A j \in 1..Len(word) : txt[i + j - 1] = word[j]

RECURSIVE ParseValue(_, _)
RECURSIVE ParseMembers(_, _, _)
\* The members of an object from index i, after "{" or ",".
ParseMembers(txt, i, acc) ==
  IF i > Len(txt) \/ txt[i] # Quote THEN ParseFail
  ELSE LET key == ParseChars(txt, i + 1, <<>>)
       IN IF ~key.ok \/ key.next > Len(txt) \/ txt[key.next] # ":"
          THEN ParseFail
          ELSE LET val == ParseValue(txt, key.next + 1)
               IN IF ~val.ok \/ val.next > Len(txt) THEN ParseFail
                  ELSE LET got == Put(acc, key.val.s, val.val)
                       IN IF txt[val.next] = "}"
                          THEN ParseOk(Obj(got), val.next + 1)
                          ELSE IF txt[val.next] = ","
                          THEN ParseMembers(txt, val.next + 1, got)
                          ELSE ParseFail

ParseValue(txt, i) ==
  IF i > Len(txt) THEN ParseFail
  ELSE IF txt[i] = Quote THEN ParseChars(txt, i + 1, <<>>)
  ELSE IF IsDigit(txt[i]) THEN ParseNumber(txt, i)
  ELSE IF IsWord(txt, i, <<"n", "u", "l", "l">>) THEN ParseOk(Null, i + 4)
  ELSE IF txt[i] = "{" THEN
         IF i + 1 <= Len(txt) /\ txt[i + 1] = "}"
         THEN ParseOk(Obj(<<>>), i + 2)
         ELSE ParseMembers(txt, i + 1, <<>>)
  ELSE ParseFail

\* JSON.parse: ok is FALSE where it throws a SyntaxError.
JSONparse(txt) ==
  LET r == ParseValue(txt, 1)
  IN IF r.ok /\ r.next = Len(txt) + 1 THEN [ok |-> TRUE, val |-> r.val]
     ELSE [ok |-> FALSE, val |-> Undef]

\* ------------------------------------------------------------------- state
Own == "own"   \* the queue subscribeToEvents declares
Ext == "ext"   \* the queue of another subscriber bound to the same exchange
Queues == {Own, Ext}

Requests == 1..MaxRequests

Chars_eventType == <<"e", "v", "e", "n", "t", "T", "y", "p", "e">>
Chars_userRegistered ==
  <<"u", "s", "e", "r", "R", "e", "g", "i", "s", "t", "e", "r", "e", "d">>
Chars_userId == <<"u", "s", "e", "r", "I", "d">>
Chars_username == <<"u", "s", "e", "r", "n", "a", "m", "e">>
Chars_email == <<"e", "m", "a", "i", "l">>

\* req.body of a /register request: a field the client left out is undefined.
ReqBodies ==
  { [username |-> Str(<<"a", "n", "a">>), email |-> Str(<<"a", "@", "x">>)] }

\* result.insertId of the first insert: the table's next auto-increment value.
FirstInsertIds == {9}

\* A body another publisher puts on the exchange: it is not JSON.
ForeignBodies == { <<"{">> }

\* A line already in events.log when the process starts.
OldEntry == [timestamp |-> 0, event |-> <<"{", "}">>]

VARIABLES
  proc,             \* "running", or "crashed" after an uncaught exception
  listening,        \* app.listen has been called
  channel,          \* the module's channel: 0 is undefined, else its id
  connsOpened,      \* broker connections amqp.connect has opened
  chansOpened,      \* channels connection.createChannel has opened
  subPc,            \* where subscribeToEvents stands
  ccPc,             \* where a further caller of createChannel stands
  exchangeDeclared, \* broker: the exchange "events" exists
  queueDeclared,    \* broker: the subscriber's exclusive queue exists
  bound,            \* broker: the queues bound to the exchange
  consumer,         \* broker: channel.consume has registered the callback
  received,         \* per queue, the bodies the exchange routed to it
  delivered,        \* how many bodies of received[Own] the callback has got
  published,        \* history of the publishEvent calls that reached publish
  foreign,          \* how many bodies other publishers have sent
  reqs,             \* the /register requests
  nextInsertId,     \* the user table's next auto-increment value
  now,              \* the clock, as last read
  pending,          \* log lines whose fs.appendFile is in flight
  file,             \* events.log, line by line
  writeErrors,      \* fs.appendFile calls that ended with err
  failedWrites,     \* the log lines of those calls
  console           \* what has been written to the console, by kind

vars == <<proc, listening, channel, connsOpened, chansOpened, subPc, ccPc,
          exchangeDeclared, queueDeclared, bound, consumer, received,
          delivered, published, foreign, reqs, nextInsertId, now, pending,
          file, writeErrors, failedWrites, console>>

brokerVars == <<exchangeDeclared, queueDeclared, bound, consumer, received,
                delivered, published>>
channelVars == <<channel, connsOpened, chansOpened>>
logVars == <<pending, file, writeErrors, failedWrites>>

\* A request: inserted says that its insert succeeded, status is the
\* response sent (0: none).
IdleReq == [pc |-> "idle", username |-> Undef, email |-> Undef,
            inserted |-> FALSE, status |-> 0]

InitWith(insertIds) ==
  /\ proc = "running"
  /\ listening = FALSE
  /\ channel = 0
  /\ connsOpened = 0
  /\ chansOpened = 0
  /\ subPc = "init"
  /\ ccPc = "idle"
  /\ exchangeDeclared = FALSE
  /\ queueDeclared = FALSE
  /\ bound = {}
  /\ consumer = FALSE
  /\ received = [q \in Queues |-> <<>>]
  /\ delivered = 0
  /\ published = <<>>
  /\ foreign = 0
  /\ reqs = [r \in Requests |-> IdleReq]
  /\ nextInsertId \in insertIds
  /\ now = 0
  /\ pending = <<>>
  /\ file = <<OldEntry>>
  /\ writeErrors = 0
  /\ failedWrites = {}
  /\ console = {}

Init == InitWith(FirstInsertIds)

Running == proc = "running"

\* An exception no caller catches: Node prints it and exits. The broker
\* sees the connection close and deletes the exclusive queue; the appends
\* still in flight are abandoned.
Uncaught ==
  /\ proc' = "crashed"
  /\ console' = console \cup {"uncaught"}
  /\ bound' = bound \ {Own}
  /\ consumer' = FALSE
  /\ queueDeclared' = FALSE
  /\ pending' = <<>>

\* The clock is read: it has not gone back since it was last read.
ReadClock == now' \in now..MaxTime

\* Mutant: the body goes straight to every queue, bound or not.
Route_unbound(body) ==
  [q \in Queues |-> Append(received[q], body)]

\* The fanout exchange: a copy of body to every queue bound at this moment.
Route(body) ==
  [q \in Queues |-> IF q \in bound THEN Append(received[q], body)
                    ELSE received[q]]

\* --------------------------------------------------------- createChannel
\* amqp.connect resolves: the connection is open, createChannel is awaited.
connectResolved ==
  /\ connsOpened' = connsOpened + 1
  /\ UNCHANGED <<channel, chansOpened, console>>

\* amqp.connect or connection.createChannel rejects: the catch logs it and
\* createChannel returns normally, channel as it was.
createChannelCaught ==
  /\ console' = console \cup {"connectError"}
  /\ UNCHANGED <<channel, connsOpened, chansOpened>>

\* Mutant: channel = channel || (new channel), an open channel is kept.
channelAssigned_keepFirst ==
  /\ chansOpened' = chansOpened + 1
  /\ channel' = IF channel = 0 THEN chansOpened + 1 ELSE channel
  /\ UNCHANGED <<connsOpened, console>>

\* connection.createChannel resolves: channel is assigned the new channel.
channelAssigned ==
  /\ chansOpened' = chansOpened + 1
  /\ channel' = chansOpened + 1
  /\ UNCHANGED <<connsOpened, console>>

\* ------------------------------------------------------------------ startup
\* Lines 244-250, one tick: subscribeToEvents() runs up to its first await,
\* inside createChannel, where amqp.connect is pending; then app.listen.
Startup ==
  /\ Running /\ subPc = "init"
  /\ subPc' = "connecting"
  /\ listening' = TRUE
  /\ UNCHANGED <<proc, channelVars, ccPc, brokerVars, foreign, reqs,
                 nextInsertId, now, logVars, console>>

\* ------------------------------------------------------ subscribeToEvents
SubConnectOk ==
  /\ Running /\ subPc = "connecting"
  /\ connectResolved
  /\ subPc' = "creatingChannel"
  /\ UNCHANGED <<proc, listening, ccPc, brokerVars, foreign, reqs,
                 nextInsertId, now, logVars>>

\* Mutant: a failed connection attempt is logged and tried again.
SubConnectFail_retried ==
  /\ Running /\ subPc = "connecting"
  /\ createChannelCaught
  /\ subPc' = "connecting"
  /\ UNCHANGED <<proc, listening, ccPc, brokerVars, foreign, reqs,
                 nextInsertId, now, logVars>>

\* Lines 30, 33-35: amqp.connect rejects.
SubConnectFail ==
  /\ Running /\ subPc = "connecting"
  /\ createChannelCaught
  /\ subPc' = "assertExchange"
  /\ UNCHANGED <<proc, listening, ccPc, brokerVars, foreign, reqs,
                 nextInsertId, now, logVars>>

SubChannelOk ==
  /\ Running /\ subPc = "creatingChannel"
  /\ channelAssigned
  /\ subPc' = "assertExchange"
  /\ UNCHANGED <<proc, listening, ccPc, brokerVars, foreign, reqs,
                 nextInsertId, now, logVars>>

SubChannelFail ==
  /\ Running /\ subPc = "creatingChannel"
  /\ createChannelCaught
  /\ subPc' = "assertExchange"
  /\ UNCHANGED <<proc, listening, ccPc, brokerVars, foreign, reqs,
                 nextInsertId, now, logVars>>

\* Mutant: no .catch on subscribeToEvents(), the rejection is unhandled.
SubAbort_uncaught ==
  /\ Running /\ subPc = "assertExchange" /\ channel = 0
  /\ subPc' = "failed"
  /\ Uncaught
  /\ UNCHANGED <<listening, channelVars, ccPc, exchangeDeclared, received,
                 delivered, published, foreign, reqs, nextInsertId, now, file,
                 writeErrors, failedWrites>>

\* Line 202 with channel undefined: channel.assertExchange throws a
\* TypeError, the promise of subscribeToEvents rejects and the .catch of
\* line 244 logs it.
SubAbort ==
  /\ Running /\ subPc = "assertExchange" /\ channel = 0
  /\ subPc' = "failed"
  /\ console' = console \cup {"subscriberError"}
  /\ UNCHANGED <<proc, listening, channelVars, ccPc, brokerVars, foreign,
                 reqs, nextInsertId, now, logVars>>

\* Line 202: await channel.assertExchange(exchange, "fanout", ...).
SubAssertExchange ==
  /\ Running /\ subPc = "assertExchange" /\ channel # 0
  /\ exchangeDeclared' = TRUE
  /\ subPc' = "assertQueue"
  /\ UNCHANGED <<proc, listening, channelVars, ccPc, queueDeclared, bound,
                 consumer, received, delivered, published, foreign, reqs,
                 nextInsertId, now, logVars, console>>

\* Line 205: await channel.assertQueue("", {exclusive: true}).
SubAssertQueue ==
  /\ Running /\ subPc = "assertQueue"
  /\ queueDeclared' = TRUE
  /\ subPc' = "bindQueue"
  /\ UNCHANGED <<proc, listening, channelVars, ccPc, exchangeDeclared, bound,
                 consumer, received, delivered, published, foreign, reqs,
                 nextInsertId, now, logVars, console>>

\* Mutant: channel.bindQueue is not awaited, the binding is still on its way
\* when the next step runs.
SubBindQueue_notAwaited ==
  /\ Running /\ subPc = "bindQueue"
  /\ subPc' = "consume"
  /\ UNCHANGED <<proc, listening, channelVars, ccPc, brokerVars, foreign,
                 reqs, nextInsertId, now, logVars, console>>

\* Line 208: await channel.bindQueue(queue, exchange, "").
SubBindQueue ==
  /\ Running /\ subPc = "bindQueue"
  /\ bound' = bound \cup {Own}
  /\ subPc' = "consume"
  /\ UNCHANGED <<proc, listening, channelVars, ccPc, exchangeDeclared,
                 queueDeclared, consumer, received, delivered, published,
                 foreign, reqs, nextInsertId, now, logVars, console>>

\* Lines 210-223: the console line, then channel.consume registers the
\* callback with noAck; subscribeToEvents returns.
SubConsume ==
  /\ Running /\ subPc = "consume"
  /\ consumer' = TRUE
  /\ console' = console \cup {"waiting"}
  /\ subPc' = "consuming"
  /\ UNCHANGED <<proc, listening, channelVars, ccPc, exchangeDeclared,
                 queueDeclared, bound, received, delivered, published,
                 foreign, reqs, nextInsertId, now, logVars>>

\* ------------------------------------------------------------ publishEvent
\* Mutant: publishEvent returns quietly when there is no channel.
publishThrows_swallowed == FALSE

\* Line 41 throws a TypeError when channel is undefined.
publishThrows == channel = 0

\* Mutant: the bytes are published to another exchange than "events".
publishEvent_otherExchange(event) ==
  /\ ReadClock
  /\ exchangeDeclared' = TRUE
  /\ received' = received
  /\ published' = Append(published,
                         [event |-> event, boundAt |-> bound,
                          consuming |-> consumer, time |-> now'])

\* Lines 41-47 on a channel: the exchange is asserted, the event is encoded
\* and the bytes are published to the exchange with an empty routing key.
\* The history keeps the event, the queues bound, whether the subscriber
\* was consuming, and the time of the call.
publishEvent(event) ==
  /\ ReadClock
  /\ exchangeDeclared' = TRUE
  /\ received' = Route(JSONstringify(event))
  /\ published' = Append(published,
                         [event |-> event, boundAt |-> bound,
                          consuming |-> consumer, time |-> now'])

\* -------------------------------------------------------------- /register
\* Lines 59-68: the handler hashes the password and issues db.query. The
\* await of bcrypt.hash touches nothing the other callbacks read.
Register(r, body) ==
  /\ Running /\ listening
  /\ reqs[r].pc = "idle"
  /\ IF r = 1 THEN TRUE ELSE reqs[r - 1].pc # "idle"
  /\ reqs' = [reqs EXCEPT ![r] = [pc |-> "querying", username |-> body.username,
                                  email |-> body.email, inserted |-> FALSE,
                                  status |-> 0]]
  /\ UNCHANGED <<proc, listening, channelVars, subPc, ccPc, brokerVars,
                 foreign, nextInsertId, now, logVars, console>>

\* The event of lines 74-79.
RegisteredEvent(insertId, username, email) ==
  Obj(<< Member(Chars_eventType, Str(Chars_userRegistered)),
         Member(Chars_userId, Num(insertId)),
         Member(Chars_username, username),
         Member(Chars_email, email) >>)

\* Mutant: the event is published although the insert failed.
QueryError_publishes(r) ==
  /\ Running /\ reqs[r].pc = "querying" /\ ~publishThrows
  /\ publishEvent(RegisteredEvent(nextInsertId, reqs[r].username,
                                  reqs[r].email))
  /\ reqs' = [reqs EXCEPT ![r].pc = "done", ![r].status = 500]
  /\ console' = console \cup {"registerError"}
  /\ UNCHANGED <<proc, listening, channelVars, subPc, ccPc, queueDeclared,
                 bound, consumer, delivered, foreign, nextInsertId, logVars>>

\* Lines 69-71: the insert failed.
QueryError(r) ==
  /\ Running /\ reqs[r].pc = "querying"
  /\ reqs' = [reqs EXCEPT ![r].pc = "done", ![r].status = 500]
  /\ console' = console \cup {"registerError"}
  /\ UNCHANGED <<proc, listening, channelVars, subPc, ccPc, brokerVars,
                 foreign, nextInsertId, now, logVars>>

\* Lines 72-83: the insert succeeded, the event is published, then the
\* success response is sent.
QueryOk(r) ==
  /\ Running /\ reqs[r].pc = "querying" /\ ~publishThrows
  /\ publishEvent(RegisteredEvent(nextInsertId, reqs[r].username,
                                  reqs[r].email))
  /\ nextInsertId' = nextInsertId + 1
  /\ reqs' = [reqs EXCEPT ![r].pc = "done", ![r].inserted = TRUE,
                           ![r].status = 200]
  /\ UNCHANGED <<proc, listening, channelVars, subPc, ccPc, queueDeclared,
                 bound, consumer, delivered, foreign, logVars, console>>

\* Lines 72-81 with channel undefined: publishEvent throws out of the
\* db.query callback before res.json is reached; nothing catches it.
QueryOkThrow(r) ==
  /\ Running /\ reqs[r].pc = "querying" /\ publishThrows
  /\ Uncaught
  /\ nextInsertId' = nextInsertId + 1
  /\ reqs' = [reqs EXCEPT ![r].pc = "threw", ![r].inserted = TRUE]
  /\ UNCHANGED <<listening, channelVars, subPc, ccPc, exchangeDeclared,
                 received, delivered, published, foreign, now, file,
                 writeErrors, failedWrites>>

\* ---------------------------------------------------------- logEventToFile
\* Lines 230-232: the log line, its timestamp the clock as just read.
LogEntry(event) == [timestamp |-> now', event |-> JSONstringify(event)]

\* Mutant: the line is built and never written.
logEventToFile_dropped(event) ==
  /\ ReadClock
  /\ pending' = pending

\* Mutant: fs.appendFile is started twice for the line.
logEventToFile_twice(event) ==
  /\ ReadClock
  /\ pending' = pending \o <<LogEntry(event), LogEntry(event)>>

\* Lines 227-234: the line is built and fs.appendFile is started.
logEventToFile(event) ==
  /\ ReadClock
  /\ pending' = Append(pending, LogEntry(event))

RemoveAt(seq, i) == SubSeq(seq, 1, i - 1) \o SubSeq(seq, i + 1, Len(seq))

\* Mutant: fs.writeFile in place of fs.appendFile, the file is replaced.
AppendDone_overwrite(i) ==
  /\ Running /\ i \in 1..Len(pending)
  /\ file' = <<pending[i]>>
  /\ pending' = RemoveAt(pending, i)
  /\ console' = console \cup {"eventLogged"}
  /\ UNCHANGED <<proc, listening, channelVars, subPc, ccPc, brokerVars,
                 foreign, reqs, nextInsertId, now, writeErrors, failedWrites>>

\* Lines 234-239, err unset: the line is at the end of the file. Appends in
\* flight at the same time complete in any order.
AppendDone(i) ==
  /\ Running /\ i \in 1..Len(pending)
  /\ file' = Append(file, pending[i])
  /\ pending' = RemoveAt(pending, i)
  /\ console' = console \cup {"eventLogged"}
  /\ UNCHANGED <<proc, listening, channelVars, subPc, ccPc, brokerVars,
                 foreign, reqs, nextInsertId, now, writeErrors, failedWrites>>

\* Mutant: the rejected line is handed to fs.appendFile again.
AppendFail_retried(i) ==
  /\ Running /\ i \in 1..Len(pending)
  /\ pending' = Append(RemoveAt(pending, i), pending[i])
  /\ writeErrors' = writeErrors + 1
  /\ failedWrites' = failedWrites \cup {pending[i]}
  /\ console' = console \cup {"logWriteError"}
  /\ UNCHANGED <<proc, listening, channelVars, subPc, ccPc, brokerVars,
                 foreign, reqs, nextInsertId, now, file>>

\* Lines 234-236, err set: the file is as it was, the error is logged.
AppendFail(i) ==
  /\ Running /\ i \in 1..Len(pending)
  /\ pending' = RemoveAt(pending, i)
  /\ writeErrors' = writeErrors + 1
  /\ failedWrites' = failedWrites \cup {pending[i]}
  /\ console' = console \cup {"logWriteError"}
  /\ UNCHANGED <<proc, listening, channelVars, subPc, ccPc, brokerVars,
                 foreign, reqs, nextInsertId, now, file>>

\* ------------------------------------------------------- consume callback
\* The next message of the subscriber's queue. With noAck the broker drops
\* it from the queue as it delivers it.
NextMessage == received[Own][delivered + 1]
CanDeliver == Running /\ consumer /\ delivered < Len(received[Own])

\* Mutant: the message stays at the head of the queue after the callback
\* has run for it.
Deliver_requeued ==
  /\ CanDeliver /\ JSONparse(NextMessage).ok
  /\ delivered' = delivered
  /\ logEventToFile(JSONparse(NextMessage).val)
  /\ UNCHANGED <<proc, listening, channelVars, subPc, ccPc, exchangeDeclared,
                 queueDeclared, bound, consumer, received, published, foreign,
                 reqs, nextInsertId, file, writeErrors, failedWrites,
                 console>>

\* Lines 215-220: msg.content is a Buffer, which is truthy even when empty;
\* the body parses and the event goes to the log.
Deliver ==
  /\ CanDeliver /\ JSONparse(NextMessage).ok
  /\ delivered' = delivered + 1
  /\ logEventToFile(JSONparse(NextMessage).val)
  /\ UNCHANGED <<proc, listening, channelVars, subPc, ccPc, exchangeDeclared,
                 queueDeclared, bound, consumer, received, published, foreign,
                 reqs, nextInsertId, file, writeErrors, failedWrites,
                 console>>

\* Mutant: the callback catches the SyntaxError, logs it and skips the
\* delivery.
DeliverThrow_caught ==
  /\ CanDeliver /\ ~JSONparse(NextMessage).ok
  /\ delivered' = delivered + 1
  /\ console' = console \cup {"decodeError"}
  /\ UNCHANGED <<proc, listening, channelVars, subPc, ccPc, exchangeDeclared,
                 queueDeclared, bound, consumer, received, published, foreign,
                 reqs, nextInsertId, now, logVars>>

\* Line 217: JSON.parse throws a SyntaxError out of the callback.
DeliverThrow ==
  /\ CanDeliver /\ ~JSONparse(NextMessage).ok
  /\ delivered' = delivered + 1
  /\ Uncaught
  /\ UNCHANGED <<listening, channelVars, subPc, ccPc, exchangeDeclared,
                 received, published, foreign, reqs, nextInsertId, now, file,
                 writeErrors, failedWrites>>

\* ------------------------------------------------------------ environment
\* Another subscriber (lines 202-208 run by another process) binds its queue.
ExtBind ==
  /\ Running /\ exchangeDeclared /\ Ext \notin bound
  /\ bound' = bound \cup {Ext}
  /\ UNCHANGED <<proc, listening, channelVars, subPc, ccPc, exchangeDeclared,
                 queueDeclared, consumer, received, delivered, published,
                 foreign, reqs, nextInsertId, now, logVars, console>>

\* Another publisher puts a body on the exchange.
ForeignPublish(body) ==
  /\ Running /\ exchangeDeclared /\ foreign < MaxForeign
  /\ received' = Route(body)
  /\ foreign' = foreign + 1
  /\ UNCHANGED <<proc, listening, channelVars, subPc, ccPc, exchangeDeclared,
                 queueDeclared, bound, consumer, delivered, published, reqs,
                 nextInsertId, now, logVars, console>>

\* ----------------------------------------------------------- specification
Next ==
  \/ Startup
  \/ SubConnectOk
  \/ SubConnectFail
  \/ SubChannelOk
  \/ SubChannelFail
  \/ SubAbort
  \/ SubAssertExchange
  \/ SubAssertQueue
  \/ SubBindQueue
  \/ SubConsume
  \/ \E r \in Requests : \E body \in ReqBodies : Register(r, body)
  \/ \E r \in Requests : QueryError(r)
  \/ \E r \in Requests : QueryOk(r)
  \/ \E r \in Requests : QueryOkThrow(r)
  \/ Deliver
  \/ DeliverThrow
  \/ \E i \in 1..Len(pending) : AppendDone(i)
  \/ \E i \in 1..Len(pending) : AppendFail(i)
  \/ ExtBind
  \/ \E body \in ForeignBodies : ForeignPublish(body)

Spec == Init /\ [][Next]_vars

\* The event loop runs every callback that is ready: a delivery the broker
\* has for the consumer, and the completion of every append in flight.
\* The first is WF_vars(Deliver \/ DeliverThrow) with its ENABLED written
\* out: the callback can run exactly when CanDeliver holds.
FairSpec ==
  /\ Spec
  /\ ([]<>(~CanDeliver) \/ []<><<Deliver \/ DeliverThrow>>_vars)
  /\ WF_vars(\E i \in 1..Len(pending) : AppendDone(i) \/ AppendFail(i))

\* --------------------------------------- createChannel called a second time
\* A further caller of createChannel (lines 28-36), as the contract of a
\* channel that is acquired on use allows.
AgainStart ==
  /\ Running /\ ccPc = "idle"
  /\ subPc \notin {"init", "connecting", "creatingChannel"}
  /\ ccPc' = "connecting"
  /\ UNCHANGED <<proc, listening, channelVars, subPc, brokerVars, foreign,
                 reqs, nextInsertId, now, logVars, console>>

AgainConnectOk ==
  /\ Running /\ ccPc = "connecting"
  /\ connectResolved
  /\ ccPc' = "creatingChannel"
  /\ UNCHANGED <<proc, listening, subPc, brokerVars, foreign, reqs,
                 nextInsertId, now, logVars>>

AgainChannelOk ==
  /\ Running /\ ccPc = "creatingChannel"
  /\ channelAssigned
  /\ ccPc' = "returned"
  /\ UNCHANGED <<proc, listening, subPc, brokerVars, foreign, reqs,
                 nextInsertId, now, logVars>>

AgainFail ==
  /\ Running /\ ccPc \in {"connecting", "creatingChannel"}
  /\ createChannelCaught
  /\ ccPc' = "returned"
  /\ UNCHANGED <<proc, listening, subPc, brokerVars, foreign, reqs,
                 nextInsertId, now, logVars>>

NextAgain ==
  \/ Startup
  \/ SubConnectOk
  \/ SubConnectFail
  \/ SubChannelOk
  \/ SubChannelFail
  \/ SubAbort
  \/ SubAssertExchange
  \/ SubAssertQueue
  \/ SubBindQueue
  \/ SubConsume
  \/ \E r \in Requests : \E body \in ReqBodies : Register(r, body)
  \/ \E r \in Requests : QueryError(r)
  \/ \E r \in Requests : QueryOk(r)
  \/ \E r \in Requests : QueryOkThrow(r)
  \/ AgainStart
  \/ AgainConnectOk
  \/ AgainChannelOk
  \/ AgainFail

SpecAgain == Init /\ [][NextAgain]_vars

\* ------------------------------------------ one registration, any payload
\* Values a JSON request body can hold in a field, or leave out.
WideValues ==
  { Str(<<"a", "n", "a">>), Str(<<"a", Quote, Backslash, Newline>>),
    Str(<<>>), Num(10), Null, Undef }
WideBodies == [username : WideValues, email : WideValues]
WideInsertIds == {0, 7, 9, 10, 120}

InitRoundTrip == InitWith(WideInsertIds)

\* The path of one event from /register to the log, the broker reachable.
NextRoundTrip ==
  \/ Startup
  \/ SubConnectOk
  \/ SubChannelOk
  \/ SubAssertExchange
  \/ SubAssertQueue
  \/ SubBindQueue
  \/ SubConsume
  \/ \E body \in WideBodies : Register(1, body)
  \/ QueryOk(1)
  \/ Deliver
  \/ AppendDone(1)

SpecRoundTrip == InitRoundTrip /\ [][NextRoundTrip]_vars

\* ----------------------------------- the exchange shared with a publisher
\* Bodies another publisher puts on the exchange: one that is not JSON and
\* one that is JSON without being an event of publishEvent.
SharedBodies == ForeignBodies \cup { <<"7">> }

\* The broker reachable, and the exchange "events" used by another publisher
\* as well.
NextShared ==
  \/ Startup
  \/ SubConnectOk
  \/ SubChannelOk
  \/ SubAssertExchange
  \/ SubAssertQueue
  \/ SubBindQueue
  \/ SubConsume
  \/ \E r \in Requests : \E body \in ReqBodies : Register(r, body)
  \/ \E r \in Requests : QueryOk(r)
  \/ \E r \in Requests : QueryOkThrow(r)
  \/ Deliver
  \/ DeliverThrow
  \/ \E i \in 1..Len(pending) : AppendDone(i)
  \/ \E i \in 1..Len(pending) : AppendFail(i)
  \/ \E body \in SharedBodies : ForeignPublish(body)

SpecShared == Init /\ [][NextShared]_vars

\* ================================================================== claims
\* The bytes publishEvent handed to the channel for its i-th event.
BodyOf(i) == JSONstringify(published[i].event)
Count(seq, x) == Cardinality({k \in 1..Len(seq) : seq[k] = x})
Pos(seq, x) == CHOOSE k \in 1..Len(seq) : seq[k] = x
\* Every log line written, in flight or rejected.
LogLines ==
  {file[k] : k \in 1..Len(file)} \cup {pending[k] : k \in 1..Len(pending)}
    \cup failedWrites

\* C1: every queue bound to the exchange when publishEvent publishes an
\* event receives exactly one copy of it, and receives two events of the
\* publisher in the order of the publishEvent calls.
FanoutDelivery ==
  \A i \in 1..Len(published) : \A q \in published[i].boundAt :
    /\ Count(received[q], BodyOf(i)) = 1
    /\ \A j \in 1..Len(published) :
         (i < j /\ q \in published[j].boundAt)
           => Pos(received[q], BodyOf(i)) < Pos(received[q], BodyOf(j))

\* C1 witness: two events published while both queues were bound.
FanoutDeliveryWitness ==
  /\ Len(published) >= 2
  /\ published[1].boundAt = Queues
  /\ published[2].boundAt = Queues

\* C2: a /register request whose insert succeeded while the channel is unset
\* is answered with the success response.
DegradedPublishReportsSuccess ==
  \A r \in Requests :
    (reqs[r].inserted /\ channel = 0) => reqs[r].status = 200

\* C3: no failure of the event subsystem ends the process.
ProcessNeverCrashes == proc = "running"

\* C4: an event published while no queue is bound reaches no queue, also
\* none bound later, and no log line carries it.
NoReplay ==
  \A i \in 1..Len(published) :
    published[i].boundAt = {}
      => /\ \A q \in Queues : Count(received[q], BodyOf(i)) = 0
         /\ \A line \in LogLines : line.event # BodyOf(i)

\* C4 witness: an event was published with no queue bound, both queues
\* were bound afterwards and a later event has been logged.
NoReplayWitness ==
  /\ Len(published) >= 2
  /\ published[1].boundAt = {}
  /\ bound = Queues
  /\ Len(file) > 1

IsPrefix(a, b) == Len(a) <= Len(b) /\ SubSeq(b, 1, Len(a)) = a
\* The deliveries whose body the callback could decode.
Decoded == {k \in 1..delivered : JSONparse(received[Own][k]).ok}
Keys(obj) == {obj.m[k].k : k \in 1..Len(obj.m)}
\* Two objects hold the same value under every key.
SameFields(a, b) ==
  /\ a.t = "obj" /\ b.t = "obj"
  /\ \A key \in Keys(a) \cup Keys(b) : Get(a, key) = Get(b, key)
\* The log line carries the fields of the i-th published event.
LineCarries(line, i) ==
  /\ JSONparse(line.event).ok
  /\ SameFields(JSONparse(line.event).val, published[i].event)

\* C5: the log only grows at its end, by one {timestamp, event} line per
\* delivery that was decoded and whose append succeeded; the lines already
\* there keep their content and their place.
LogAppendOnly ==
  /\ [](/\ (Len(file) - 1) + Len(pending) + writeErrors <= Cardinality(Decoded)
        /\ Running =>
             (Len(file) - 1) + Len(pending) + writeErrors = Cardinality(Decoded)
        /\ file[1] = OldEntry
        /\ \A k \in 2..Len(file) :
             /\ file[k].timestamp \in 0..MaxTime
             /\ JSONparse(file[k].event).ok)
  /\ [][IsPrefix(file, file') /\ Len(file') <= Len(file) + 1]_vars

\* C5 witness: two deliveries were appended after the old line and a third
\* append was rejected, or two were appended and nothing is in flight.
LogAppendOnlyWitness ==
  /\ Len(file) = 3
  /\ pending = <<>>
  /\ file[1] = OldEntry

\* C6 as stated: every event published once the subscriber consumes ends up
\* in exactly one log line, which is stamped at or after the publish call.
LoggedOnce(i) ==
  /\ Len(published) >= i
  /\ Cardinality({k \in 1..Len(file) : LineCarries(file[k], i)}) = 1
  /\ \A k \in 1..Len(file) :
       LineCarries(file[k], i) => file[k].timestamp >= published[i].time
HandedWhileConsuming(i) == Len(published) >= i /\ published[i].consuming
EveryEventLogged ==
  \A i \in Requests : HandedWhileConsuming(i) ~> LoggedOnce(i)

\* C6 amended: every event published once the subscriber consumes ends up
\* in exactly one log line, or its append is rejected and reported, or the
\* process has ended on an uncaught exception; no event is ever in two log
\* lines, and no line of it is stamped before the publish call.
WriteRejected(i) ==
  /\ Len(published) >= i
  /\ \E line \in failedWrites : LineCarries(line, i)
  /\ "logWriteError" \in console
EventLoggedOrLost ==
  /\ \A i \in Requests :
       HandedWhileConsuming(i)
         ~> (LoggedOnce(i) \/ WriteRejected(i) \/ proc = "crashed")
  /\ [](\A i \in 1..Len(published) :
          /\ Cardinality({k \in 1..Len(file) : LineCarries(file[k], i)}) <= 1
          /\ \A line \in LogLines :
               LineCarries(line, i) => line.timestamp >= published[i].time)

\* C6 witness: an event published while the subscriber was consuming is in
\* the log, stamped later than the publish call.
EventLoggedWitness ==
  /\ HandedWhileConsuming(1)
  /\ LoggedOnce(1)
  /\ \E k \in 1..Len(file) :
       LineCarries(file[k], 1) /\ file[k].timestamp > published[1].time

\* C7: when subscribeToEvents finds no channel it aborts with nothing
\* declared, bound or consumed, the error is logged, and the step leaves
\* the process running and the server listening.
SubscriberFailureIsolated ==
  /\ [](subPc = "failed"
          => /\ ~queueDeclared /\ Own \notin bound /\ ~consumer
             /\ "subscriberError" \in console
             /\ listening)
  /\ [][(subPc = "assertExchange" /\ channel = 0 /\ subPc' # subPc)
          => (subPc' = "failed" /\ proc' = "running" /\ listening')]_vars

\* C7 witness: the subscriber has failed and the server has answered a
\* request since.
SubscriberFailureWitness ==
  /\ subPc = "failed"
  /\ proc = "running"
  /\ \E r \in Requests : reqs[r].status = 500

\* C8: when the insert of a request succeeds while the channel is unset,
\* publishEvent throws to the callback and nothing is handed to the broker.
PublishFailsLoudly ==
  [][\A r \in Requests :
       (reqs[r].pc = "querying" /\ reqs'[r].inserted /\ channel = 0)
         => /\ reqs'[r].pc = "threw"
            /\ received' = received
            /\ published' = published]_vars

\* C8 witness: publishEvent has thrown in the callback of a request.
PublishFailsLoudlyWitness ==
  \E r \in Requests : reqs[r].pc = "threw" /\ channel = 0

CreateChannelCalls ==
  (IF subPc = "init" THEN 0 ELSE 1) + (IF ccPc = "idle" THEN 0 ELSE 1)
RoundTrip ==
  /\ \A i \in 1..Len(published) :
       /\ JSONparse(JSONstringify(published[i].event)).ok
       /\ SameFields(JSONparse(JSONstringify(published[i].event)).val,
                     published[i].event)
  /\ \A k \in 1..delivered :
       /\ JSONparse(received[Own][k]).ok
       /\ \E i \in 1..Len(published) :
            SameFields(JSONparse(received[Own][k]).val, published[i].event)
  /\ \A line \in LogLines \ {OldEntry} :
       \E i \in 1..Len(published) : LineCarries(line, i)

\* C10 witness: an event whose username holds a quote, a backslash and a
\* newline and whose email is undefined was published, delivered and
\* logged.
RoundTripWitness ==
  /\ Len(published) = 1
  /\ Get(published[1].event, Chars_username)
       = Str(<<"a", Quote, Backslash, Newline>>)
  /\ Get(published[1].event, Chars_email) = Undef
  /\ delivered = 1
  /\ Len(file) = 2

\* C11 as stated: with the broker reachable (no connection attempt has
\* failed), whenever the callback of a successful insert runs publishEvent
\* the channel is already set.
ChannelReadyBeforePublish ==
  [][\A r \in Requests :
       (/\ reqs[r].pc = "querying"
        /\ reqs'[r].inserted
        /\ "connectError" \notin console)
         => channel # 0]_vars

\* The order of the steps of subscribeToEvents.
SubSteps ==
  { <<"init", "connecting">>, <<"connecting", "creatingChannel">>,
    <<"connecting", "assertExchange">>,
    <<"creatingChannel", "assertExchange">>,
    <<"assertExchange", "failed">>, <<"assertExchange", "assertQueue">>,
    <<"assertQueue", "bindQueue">>, <<"bindQueue", "consume">>,
    <<"consume", "consuming">> }

\* C12: subscribeToEvents gets the channel, declares the exchange, declares
\* its queue, binds it and only then registers the consumer, each step after
\* the one before has completed; the callback runs only with the queue bound.
SubscriberSetupOrder ==
  /\ [](/\ subPc \in {"assertQueue", "bindQueue", "consume", "consuming"}
             => (channel # 0 /\ exchangeDeclared)
        /\ queueDeclared => subPc \in {"bindQueue", "consume", "consuming"}
        /\ Own \in bound => (queueDeclared /\ subPc \in {"consume", "consuming"})
        /\ consumer => (Own \in bound /\ subPc = "consuming")
        /\ delivered > 0 => subPc = "consuming"
        /\ Own \notin bound => received[Own] = <<>> \/ proc = "crashed")
  /\ [][/\ subPc' # subPc => <<subPc, subPc'>> \in SubSteps
        /\ delivered' # delivered => (Own \in bound /\ consumer)]_vars

\* C12 witness: the setup is complete and the callback has run for an event
\* published after the binding.
SubscriberSetupOrderWitness ==
  /\ subPc = "consuming"
  /\ Own \in bound
  /\ delivered >= 1
  /\ Len(published) >= 1
  /\ Own \in published[1].boundAt

\* The delivery whose callback invoked logEventToFile for the line: the
\* callback runs once per delivery, in the order of the queue.
InvokedAt(line) ==
  CHOOSE k \in Decoded :
    JSONstringify(JSONparse(received[Own][k]).val) = line.event

\* C13 as stated: the lines appended by this process are in the log in the
\* order in which logEventToFile was invoked for them (a line is one record:
\* it is written whole or not at all).
LogInInvocationOrder ==
  \A a \in 2..Len(file) : \A b \in 2..Len(file) :
    a < b => InvokedAt(file[a]) <= InvokedAt(file[b])

\* The lines of the log this process appended that hold the given bytes.
LinesWith(bytes) == {k \in 2..Len(file) : file[k].event = bytes}
\* The deliveries whose decoded event encodes to the given bytes.
DeliveriesOf(bytes) ==
  {k \in Decoded : JSONstringify(JSONparse(received[Own][k]).val) = bytes}

\* C14: the broker hands each message of the subscriber's queue to the
\* callback at most once and in queue order, a delivery gives at most one
\* log line, and once the process has ended on an exception nothing is
\* delivered again or appended: what was in flight is lost, not repeated.
AtMostOnce ==
  /\ [](/\ delivered <= Len(received[Own])
        /\ (Len(file) - 1) + Len(pending) + writeErrors <= delivered
        /\ \A k \in 2..Len(file) :
             Cardinality(LinesWith(file[k].event))
               <= Cardinality(DeliveriesOf(file[k].event)))
  /\ [][/\ delivered' \in {delivered, delivered + 1}
        /\ Len(file') + Len(pending') + writeErrors'
             <= Len(file) + Len(pending) + writeErrors
                  + (delivered' - delivered)
        /\ proc = "crashed"
             => (file' = file /\ delivered' = delivered /\ pending' = <<>>)]_vars

\* C14 witness: the process ended with a decoded delivery whose line was
\* neither appended nor rejected: that event is lost.
AtMostOnceWitness ==
  /\ proc = "crashed"
  /\ delivered >= 2
  /\ Cardinality(Decoded) > (Len(file) - 1) + writeErrors

\* C15: an event is published only by the callback of an insert that
\* succeeded, in the step that then sends the success response; a request
\* whose insert failed publishes nothing and is answered with an error.
PublishAfterInsertOnly ==
  /\ [](/\ Len(published)
             = Cardinality({r \in Requests : reqs[r].status = 200})
        /\ \A r \in Requests :
             /\ reqs[r].status = 200 => reqs[r].inserted
             /\ reqs[r].status = 500 => ~reqs[r].inserted
             /\ (reqs[r].inserted /\ reqs[r].status = 0)
                  => reqs[r].pc = "threw")
  /\ [][/\ published' # published
             => \E r \in Requests :
                  /\ reqs[r].pc = "querying" /\ reqs[r].status = 0
                  /\ reqs'[r].inserted /\ reqs'[r].status = 200
                  /\ published'
                       = Append(published, published'[Len(published')])
                  /\ published'[Len(published')].event
                       = RegisteredEvent(nextInsertId, reqs[r].username,
                                         reqs[r].email)
        /\ \A r \in Requests :
             (reqs[r].status = 0 /\ reqs'[r].status = 500)
               => (published' = published /\ received' = received)]_vars

\* C15 witness: one request was answered with an error, another with
\* success, and one event has been published.
PublishAfterInsertOnlyWitness ==
  /\ \E r \in Requests : reqs[r].status = 500
  /\ \E r \in Requests : reqs[r].status = 200
  /\ Len(published) = 1

LogWriteFailure ==
  /\ [](/\ writeErrors > 0 => "logWriteError" \in console
        /\ Running
             => Cardinality(Decoded)
                  = (Len(file) - 1) + Len(pending) + writeErrors)
  /\ [][writeErrors' # writeErrors
          => /\ writeErrors' = writeErrors + 1
             /\ "logWriteError" \in console'
             /\ file' = file
             /\ Len(pending') = Len(pending) - 1
             /\ delivered' = delivered /\ received' = received
             /\ proc' = proc /\ consumer' = consumer /\ bound' = bound]_vars

\* C17 witness: the line of one delivery was rejected and the line of a
\* later delivery is in the log.
LogWriteFailureWitness ==
  /\ writeErrors = 1
  /\ pending = <<>>
  /\ Len(file) = 2
  /\ \E line \in failedWrites : InvokedAt(line) < InvokedAt(file[2])

\* C18: when the connection attempt of createChannel fails, the error is
\* logged, createChannel returns to subscribeToEvents without raising, and
\* the channel is unset then and in every later state: no further
\* connection is opened.
ChannelStaysUnset ==
  /\ []("connectError" \in console
          => /\ channel = 0
             /\ chansOpened = 0
             /\ connsOpened <= 1
             /\ subPc \in {"assertExchange", "failed"})
  /\ [][/\ ("connectError" \notin console /\ "connectError" \in console')
             => /\ proc' = "running"
                /\ subPc' = "assertExchange"
                /\ channel' = 0
        /\ "connectError" \in console
             => (channel' = 0 /\ connsOpened' = connsOpened)]_vars

\* C18 witness: the connection failed, the subscriber gave up, and a later
\* publishEvent found the channel unset.
ChannelStaysUnsetWitness ==
  /\ "connectError" \in console
  /\ connsOpened = 0
  /\ subPc = "failed"
  /\ channel = 0
  /\ \E r \in Requests : reqs[r].pc = "threw"

\* The line carries an event that was handed to publishEvent.
FromPublishEvent(line) == \E i \in 1..Len(published) : LineCarries(line, i)
\* The events published since the subscriber's queue was bound.
PublishedSinceBound ==
  Cardinality({i \in 1..Len(published) : Own \in published[i].boundAt})
\* The lines this process has appended.
Logged == Len(file) - 1

\* C19 as stated: every line this process appended carries an event that
\* was handed to publishEvent, and it has appended no more lines than
\* events were published since its queue was bound.
NoSpuriousEntries ==
  /\ \A k \in 2..Len(file) : FromPublishEvent(file[k])
  /\ Logged <= PublishedSinceBound

\* C19 amended: every line this process appended holds the re-encoded body
\* of a delivery from its queue, which is an event handed to publishEvent
\* or a well-formed body another publisher put on the exchange; it has
\* appended no more lines than bodies were routed to its queue, which are
\* the events published since the queue was bound and the bodies of other
\* publishers. With no other publisher the claim holds as stated.
LoggedOnlyWhatWasRouted ==
  /\ \A k \in 2..Len(file) :
       /\ DeliveriesOf(file[k].event) # {}
       /\ \/ FromPublishEvent(file[k])
          \/ \E body \in SharedBodies :
               /\ JSONparse(body).ok
               /\ JSONstringify(JSONparse(body).val) = file[k].event
  /\ Logged + Len(pending) + writeErrors <= delivered
  /\ delivered <= Len(received[Own])
  /\ Len(received[Own]) <= PublishedSinceBound + foreign
  /\ foreign = 0
       => /\ \A k \in 2..Len(file) : FromPublishEvent(file[k])
          /\ Logged <= PublishedSinceBound

\* C19 witness: the log holds the line of an event of publishEvent and the
\* line of a body of another publisher.
LoggedOnlyWhatWasRoutedWitness ==
  /\ Len(file) = 3
  /\ \E k \in 2..3 : FromPublishEvent(file[k])
  /\ \E k \in 2..3 : file[k].event = <<"7">>

====
